---- MODULE Spec2Model ----
(***************************************************************************)
(* RustyBoy: the peripheral register file (src/io.rs), the PPU register    *)
(* and sprite-attribute model (src/video.rs) and the debugger loop of the  *)
(* emulator (src/emulator.rs), as state machines.                          *)
(*                                                                         *)
(* A panic!() aborts the process: it is recorded in `panicked` and no      *)
(* further call is possible afterwards.                                    *)
(***************************************************************************)
EXTENDS Integers, Sequences, FiniteSets, TLC

VARIABLES
    gbio,           \* struct GBIO of io.rs: interrupt, joypad, boot
    ppu,            \* struct PPU of video.rs (vram is not touched by any modelled call)
    breakpoints,    \* Emulator.breakpoints
    last_command,   \* Emulator.last_command
    pc,             \* gb.cpu.pc
    loc,            \* position of run_debug_mode / execute_debug_command
    steps,          \* number of gb.step() calls made so far
    cont,           \* bookkeeping of the Continue command in progress / last finished
    op,             \* the last call made: its name and arguments
    ret,            \* what the last call returned (NoRet for unit)
    panicked,       \* "" or the panic message of the call that aborted the run
    calls           \* number of calls made so far

vars == <<gbio, ppu, breakpoints, last_command, pc, loc, steps, cont, op, ret, panicked, calls>>
dbgVars == <<breakpoints, last_command, pc, loc, steps, cont>>

----------------------------------------------------------------------------
(* Bounds *)

NumVals == 6        \* number of sample bytes the calls are made with
MaxCalls == 2       \* calls per run in the PPU register specification

(* u8 arithmetic *)

Byte == 0..255
NoRet == -1

RECURSIVE BitAnd(_, _)
BitAnd(a, b) ==
    IF a = 0 \/ b = 0 THEN 0
    ELSE (a % 2) * (b % 2) + 2 * BitAnd(a \div 2, b \div 2)

RECURSIVE Pow2(_)
Pow2(n) == IF n = 0 THEN 1 ELSE 2 * Pow2(n - 1)

Shr(v, n) == v \div Pow2(n)
Shl(v, n) == (v * Pow2(n)) % 256
AddU8(a, b) == (a + b) % 256

\* The bytes the calls are made with: 0x00 0x33 0x66 0x99 0xCC 0xFF 0x32 ...
Vals == {(k * 51) % 256 : k \in 0..(NumVals - 1)}

NoOp == [name |-> "none", addr |-> 0, val |-> 0]

----------------------------------------------------------------------------
(* io.rs: Interrupt *)

INTERRUPT_VBLANK_MASK  == 1
INTERRUPT_LCDSTAT_MASK == 2
INTERRUPT_TIMER_MASK   == 4
INTERRUPT_SERIAL_MASK  == 8
INTERRUPT_JOYPAD_MASK  == 16

Interrupt_default ==
    [enabled_vblank |-> FALSE, enabled_lcdstat |-> FALSE, enabled_timer |-> FALSE,
     enabled_serial |-> FALSE, enabled_joypad |-> FALSE,
     flagged_vblank |-> FALSE, flagged_lcdstat |-> FALSE, flagged_timer |-> FALSE,
     flagged_serial |-> FALSE, flagged_joypad |-> FALSE]

write_flags_low4(i, val) ==
    [i EXCEPT !.flagged_vblank  = BitAnd(val, INTERRUPT_VBLANK_MASK) # 0,
              !.flagged_lcdstat = BitAnd(val, INTERRUPT_LCDSTAT_MASK) # 0,
              !.flagged_timer   = BitAnd(val, INTERRUPT_TIMER_MASK) # 0,
              !.flagged_serial  = BitAnd(val, INTERRUPT_SERIAL_MASK) # 0,
              !.flagged_joypad  = FALSE]

write_flags(i, val) ==
    [i EXCEPT !.flagged_vblank  = BitAnd(val, INTERRUPT_VBLANK_MASK) # 0,
              !.flagged_lcdstat = BitAnd(val, INTERRUPT_LCDSTAT_MASK) # 0,
              !.flagged_timer   = BitAnd(val, INTERRUPT_TIMER_MASK) # 0,
              !.flagged_serial  = BitAnd(val, INTERRUPT_SERIAL_MASK) # 0,
              !.flagged_joypad  = BitAnd(val, INTERRUPT_JOYPAD_MASK) # 0]

write_enable_accumulating(i, val) ==
    [i EXCEPT !.enabled_vblank  = @ \/ BitAnd(val, INTERRUPT_VBLANK_MASK) # 0,
              !.enabled_lcdstat = @ \/ BitAnd(val, INTERRUPT_LCDSTAT_MASK) # 0,
              !.enabled_timer   = @ \/ BitAnd(val, INTERRUPT_TIMER_MASK) # 0,
              !.enabled_serial  = @ \/ BitAnd(val, INTERRUPT_SERIAL_MASK) # 0,
              !.enabled_joypad  = @ \/ BitAnd(val, INTERRUPT_JOYPAD_MASK) # 0]

write_enable(i, val) ==
    [i EXCEPT !.enabled_vblank  = BitAnd(val, INTERRUPT_VBLANK_MASK) # 0,
              !.enabled_lcdstat = BitAnd(val, INTERRUPT_LCDSTAT_MASK) # 0,
              !.enabled_timer   = BitAnd(val, INTERRUPT_TIMER_MASK) # 0,
              !.enabled_serial  = BitAnd(val, INTERRUPT_SERIAL_MASK) # 0,
              !.enabled_joypad  = BitAnd(val, INTERRUPT_JOYPAD_MASK) # 0]

read_flags(i) ==
    AddU8(AddU8(AddU8(AddU8(AddU8(0,
        IF i.flagged_vblank  THEN INTERRUPT_VBLANK_MASK ELSE 0),
        IF i.flagged_lcdstat THEN INTERRUPT_LCDSTAT_MASK ELSE 0),
        IF i.flagged_timer   THEN INTERRUPT_TIMER_MASK ELSE 0),
        IF i.flagged_serial  THEN INTERRUPT_SERIAL_MASK ELSE 0),
        IF i.flagged_joypad  THEN INTERRUPT_JOYPAD_MASK ELSE 0)

read_enable(i) ==
    AddU8(AddU8(AddU8(AddU8(AddU8(0,
        IF i.enabled_vblank  THEN INTERRUPT_VBLANK_MASK ELSE 0),
        IF i.enabled_lcdstat THEN INTERRUPT_LCDSTAT_MASK ELSE 0),
        IF i.enabled_timer   THEN INTERRUPT_TIMER_MASK ELSE 0),
        IF i.enabled_serial  THEN INTERRUPT_SERIAL_MASK ELSE 0),
        IF i.enabled_joypad  THEN INTERRUPT_JOYPAD_MASK ELSE 0)

----------------------------------------------------------------------------
(* io.rs: Joypad *)

Joypad_default ==
    [selected_input |-> "Direction",
     input_up |-> FALSE, input_down |-> FALSE, input_left |-> FALSE, input_right |-> FALSE,
     input_a |-> FALSE, input_b |-> FALSE, input_start |-> FALSE, input_select |-> FALSE]

\* every value a Joypad struct can hold
JoypadStates ==
    [selected_input : {"Direction", "Buttons"},
     input_up : BOOLEAN, input_down : BOOLEAN, input_left : BOOLEAN, input_right : BOOLEAN,
     input_a : BOOLEAN, input_b : BOOLEAN, input_start : BOOLEAN, input_select : BOOLEAN]

SELECT_BUTTONS_MASK   == 32
SELECT_DIRECTION_MASK == 16

INPUT_RIGHT_VALUE == 1
INPUT_LEFT_VALUE  == 2
INPUT_UP_VALUE    == 4
INPUT_DOWN_VALUE  == 8

INPUT_A_VALUE      == INPUT_RIGHT_VALUE
INPUT_B_VALUE      == INPUT_LEFT_VALUE
INPUT_SELECT_VALUE == INPUT_UP_VALUE
INPUT_START_VALUE  == INPUT_DOWN_VALUE

write_joypad_direction_first(j, val) ==
    IF BitAnd(val, SELECT_DIRECTION_MASK) # 0
    THEN [j EXCEPT !.selected_input = "Direction"]
    ELSE IF BitAnd(val, SELECT_BUTTONS_MASK) # 0
         THEN [j EXCEPT !.selected_input = "Buttons"]
         ELSE j

write_joypad_resets(j, val) ==
    IF BitAnd(val, SELECT_BUTTONS_MASK) # 0
    THEN [j EXCEPT !.selected_input = "Buttons"]
    ELSE [j EXCEPT !.selected_input = "Direction"]

write_joypad(j, val) ==
    IF BitAnd(val, SELECT_BUTTONS_MASK) # 0
    THEN [j EXCEPT !.selected_input = "Buttons"]
    ELSE IF BitAnd(val, SELECT_DIRECTION_MASK) # 0
         THEN [j EXCEPT !.selected_input = "Direction"]
         ELSE j

read_joypad_leaky(j) ==
    IF j.selected_input = "Direction"
    THEN AddU8(AddU8(AddU8(AddU8(0,
            IF j.input_right THEN INPUT_RIGHT_VALUE ELSE 0),
            IF j.input_left  THEN INPUT_LEFT_VALUE ELSE 0),
            IF j.input_up    THEN INPUT_UP_VALUE ELSE 0),
            IF j.input_down  THEN INPUT_DOWN_VALUE ELSE 0)
    ELSE AddU8(AddU8(AddU8(AddU8(0,
            IF j.input_a      THEN INPUT_A_VALUE ELSE 0),
            IF j.input_b      THEN INPUT_B_VALUE ELSE 0),
            IF j.input_up     THEN INPUT_SELECT_VALUE ELSE 0),
            IF j.input_start  THEN INPUT_START_VALUE ELSE 0)

read_joypad(j) ==
    IF j.selected_input = "Direction"
    THEN AddU8(AddU8(AddU8(AddU8(0,
            IF j.input_right THEN INPUT_RIGHT_VALUE ELSE 0),
            IF j.input_left  THEN INPUT_LEFT_VALUE ELSE 0),
            IF j.input_up    THEN INPUT_UP_VALUE ELSE 0),
            IF j.input_down  THEN INPUT_DOWN_VALUE ELSE 0)
    ELSE AddU8(AddU8(AddU8(AddU8(0,
            IF j.input_a      THEN INPUT_A_VALUE ELSE 0),
            IF j.input_b      THEN INPUT_B_VALUE ELSE 0),
            IF j.input_select THEN INPUT_SELECT_VALUE ELSE 0),
            IF j.input_start  THEN INPUT_START_VALUE ELSE 0)

----------------------------------------------------------------------------
(* io.rs: GBIO *)

GBIO_new == [interrupt |-> Interrupt_default, joypad |-> Joypad_default, boot |-> TRUE]

boot_sequence(g) == g.boot

write_byte_sound_short(g, addr, val) ==
    IF addr = 0 THEN
        [panic |-> "", io |-> [g EXCEPT !.joypad = write_joypad(g.joypad, val)]]
    ELSE IF addr >= 16 /\ addr < 38 THEN
        [panic |-> "", io |-> g]
    ELSE IF addr = 80 THEN
        [panic |-> "", io |-> [g EXCEPT !.boot = (val = 0)]]
    ELSE IF addr = 15 THEN
        [panic |-> "", io |-> [g EXCEPT !.interrupt = write_flags(g.interrupt, val)]]
    ELSE IF addr = 255 THEN
        [panic |-> "", io |-> [g EXCEPT !.interrupt = write_enable(g.interrupt, val)]]
    ELSE
        [panic |-> "Unimplemented IO Write", io |-> g]

\* write_byte: the register file after the call, or the panic that aborted it
write_byte(g, addr, val) ==
    IF addr = 0 THEN
        [panic |-> "", io |-> [g EXCEPT !.joypad = write_joypad(g.joypad, val)]]
    ELSE IF addr >= 16 /\ addr <= 38 THEN
        [panic |-> "", io |-> g]
    ELSE IF addr = 80 THEN
        [panic |-> "", io |-> [g EXCEPT !.boot = (val = 0)]]
    ELSE IF addr = 15 THEN
        [panic |-> "", io |-> [g EXCEPT !.interrupt = write_flags(g.interrupt, val)]]
    ELSE IF addr = 255 THEN
        [panic |-> "", io |-> [g EXCEPT !.interrupt = write_enable(g.interrupt, val)]]
    ELSE
        [panic |-> "Unimplemented IO Write", io |-> g]

\* read_byte: the byte returned, or the panic
read_byte(g, addr) ==
    IF addr = 0 THEN [panic |-> "", val |-> read_joypad(g.joypad)]
    ELSE IF addr = 15 THEN [panic |-> "", val |-> read_flags(g.interrupt)]
    ELSE IF addr = 255 THEN [panic |-> "", val |-> read_enable(g.interrupt)]
    ELSE [panic |-> "Unimplemented IO Read", val |-> NoRet]

----------------------------------------------------------------------------
(* video.rs: Color, Sprite *)

InvalidColor == "Invalid color"

Color_from_bits_collapsing(val) ==
    CASE val = 0 -> "White"
      [] val = 1 -> "LightGray"
      [] val = 2 -> "DarkGray"
      [] val = 3 -> "DarkGray"
      [] OTHER   -> InvalidColor

Color_from_bits(val) ==
    CASE val = 0 -> "White"
      [] val = 1 -> "LightGray"
      [] val = 2 -> "DarkGray"
      [] val = 3 -> "Black"
      [] OTHER   -> InvalidColor

Color_to_bits(col) ==
    CASE col = "White"     -> 0
      [] col = "LightGray" -> 1
      [] col = "DarkGray"  -> 2
      [] col = "Black"     -> 3

SPRITE_RAM_LENGTH == 160
N_SPRITES == SPRITE_RAM_LENGTH \div 4

Sprite_default ==
    [position_y |-> 0, position_x |-> 0, tile_number |-> 0,
     priority |-> FALSE, flip_y |-> FALSE, flip_x |-> FALSE, palette |-> 0]

SPRITE_PRIORITY_MASK == 128
SPRITE_FLIP_Y_MASK   == 64
SPRITE_FLIP_X_MASK   == 32
SPRITE_PALETTE_MASK  == 16

----------------------------------------------------------------------------
(* video.rs: PPU *)

PPU_default ==
    [sprite_ram |-> [i \in 0..(N_SPRITES - 1) |-> Sprite_default],
     lcd_display_enabled |-> FALSE,
     window_tile_map_address |-> FALSE,
     window_enabled |-> FALSE,
     background_window_tile_data_address |-> FALSE,
     background_tile_map_address |-> FALSE,
     sprite_size |-> FALSE,
     sprites_enabled |-> FALSE,
     background_enabled |-> FALSE,
     scroll_y |-> 0,
     scroll_x |-> 0,
     lcdc_y_coordinate |-> 0,
     ly_compare |-> 0,
     background_palette |-> [i \in 0..3 |-> "White"],
     object_palettes |-> [k \in 0..1 |-> [i \in 0..3 |-> "White"]],
     window_y_position |-> 0,
     window_x_position |-> 0]

LCDC_LCD_DISPLAY_ENABLE_MASK          == 128
LCDC_WINDOW_TILE_MAP_ADDRESS_MASK     == 64
LCDC_WINDOW_DISPLAY_ENABLE_MASK       == 32
LCDC_BG_WINDOW_TILE_DATA_ADDRESS_MASK == 16
LCDC_BG_TILE_MAP_ADDRESS_MASK         == 8
LCDC_SPRITE_SIZE_MASK                 == 4
LCDC_SPRITE_DISPLAY_ENABLE_MASK       == 2
LCDC_BG_DISPLAY_ENABLE_MASK           == 1

read_palette(palette) ==
    AddU8(AddU8(AddU8(AddU8(0,
        Color_to_bits(palette[0])),
        Shl(Color_to_bits(palette[1]), 2)),
        Shl(Color_to_bits(palette[2]), 4)),
        Shl(Color_to_bits(palette[3]), 6))

\* the palette after the call; an entry is InvalidColor when from_bits panicked
write_palette(palette, val) ==
    LET c0 == BitAnd(val, 3)
        c1 == Shr(BitAnd(val, 12), 2)
        c2 == Shr(BitAnd(val, 48), 4)
        c3 == Shr(BitAnd(val, 192), 6)
    IN [palette EXCEPT ![0] = Color_from_bits(c0),
                       ![1] = Color_from_bits(c1),
                       ![2] = Color_from_bits(c2),
                       ![3] = Color_from_bits(c3)]

palette_panic(palette) ==
    IF \E i \in 0..3 : palette[i] = InvalidColor THEN InvalidColor ELSE ""

write_lcd_control(p, val) ==
    [p EXCEPT
        !.lcd_display_enabled = BitAnd(val, LCDC_LCD_DISPLAY_ENABLE_MASK) # 0,
        !.window_tile_map_address = BitAnd(val, LCDC_WINDOW_TILE_MAP_ADDRESS_MASK) # 0,
        !.window_enabled = BitAnd(val, LCDC_WINDOW_DISPLAY_ENABLE_MASK) # 0,
        !.background_window_tile_data_address = BitAnd(val, LCDC_BG_WINDOW_TILE_DATA_ADDRESS_MASK) # 0,
        !.background_tile_map_address = BitAnd(val, LCDC_BG_TILE_MAP_ADDRESS_MASK) # 0,
        !.sprite_size = BitAnd(val, LCDC_SPRITE_SIZE_MASK) # 0,
        !.sprites_enabled = BitAnd(val, LCDC_SPRITE_DISPLAY_ENABLE_MASK) # 0,
        !.background_enabled = BitAnd(val, LCDC_BG_DISPLAY_ENABLE_MASK) # 0]

read_lcd_control(p) ==
    AddU8(AddU8(AddU8(AddU8(AddU8(AddU8(AddU8(AddU8(0,
        IF p.lcd_display_enabled THEN LCDC_LCD_DISPLAY_ENABLE_MASK ELSE 0),
        IF p.window_tile_map_address THEN LCDC_WINDOW_TILE_MAP_ADDRESS_MASK ELSE 0),
        IF p.window_enabled THEN LCDC_WINDOW_DISPLAY_ENABLE_MASK ELSE 0),
        IF p.background_window_tile_data_address THEN LCDC_BG_WINDOW_TILE_DATA_ADDRESS_MASK ELSE 0),
        IF p.background_tile_map_address THEN LCDC_BG_TILE_MAP_ADDRESS_MASK ELSE 0),
        IF p.sprite_size THEN LCDC_SPRITE_SIZE_MASK ELSE 0),
        IF p.sprites_enabled THEN LCDC_SPRITE_DISPLAY_ENABLE_MASK ELSE 0),
        IF p.background_enabled THEN LCDC_BG_DISPLAY_ENABLE_MASK ELSE 0)

write_ppu_ly_writable(p, addr, val) ==
    CASE addr = 64 -> [panic |-> "", ppu |-> write_lcd_control(p, val)]
      [] addr = 66 -> [panic |-> "", ppu |-> [p EXCEPT !.scroll_y = val]]
      [] addr = 67 -> [panic |-> "", ppu |-> [p EXCEPT !.scroll_x = val]]
      [] addr = 68 -> [panic |-> "", ppu |-> [p EXCEPT !.lcdc_y_coordinate = val]]
      [] addr = 69 -> [panic |-> "", ppu |-> [p EXCEPT !.ly_compare = val]]
      [] addr = 71 ->
            LET pal == write_palette(p.background_palette, val)
            IN [panic |-> palette_panic(pal),
                ppu |-> [p EXCEPT !.background_palette = pal]]
      [] addr = 72 ->
            LET pal == write_palette(p.object_palettes[0], val)
            IN [panic |-> palette_panic(pal),
                ppu |-> [p EXCEPT !.object_palettes[0] = pal]]
      [] addr = 73 ->
            LET pal == write_palette(p.object_palettes[1], val)
            IN [panic |-> palette_panic(pal),
                ppu |-> [p EXCEPT !.object_palettes[1] = pal]]
      [] addr = 74 -> [panic |-> "", ppu |-> [p EXCEPT !.window_y_position = val]]
      [] addr = 75 -> [panic |-> "", ppu |-> [p EXCEPT !.window_x_position = val]]
      [] OTHER     -> [panic |-> "Invalid PPU write", ppu |-> p]

write_ppu_scx_to_scy(p, addr, val) ==
    CASE addr = 64 -> [panic |-> "", ppu |-> write_lcd_control(p, val)]
      [] addr = 66 -> [panic |-> "", ppu |-> [p EXCEPT !.scroll_y = val]]
      [] addr = 67 -> [panic |-> "", ppu |-> [p EXCEPT !.scroll_y = val]]
      [] addr = 69 -> [panic |-> "", ppu |-> [p EXCEPT !.ly_compare = val]]
      [] addr = 71 ->
            LET pal == write_palette(p.background_palette, val)
            IN [panic |-> palette_panic(pal),
                ppu |-> [p EXCEPT !.background_palette = pal]]
      [] addr = 72 ->
            LET pal == write_palette(p.object_palettes[0], val)
            IN [panic |-> palette_panic(pal),
                ppu |-> [p EXCEPT !.object_palettes[0] = pal]]
      [] addr = 73 ->
            LET pal == write_palette(p.object_palettes[1], val)
            IN [panic |-> palette_panic(pal),
                ppu |-> [p EXCEPT !.object_palettes[1] = pal]]
      [] addr = 74 -> [panic |-> "", ppu |-> [p EXCEPT !.window_y_position = val]]
      [] addr = 75 -> [panic |-> "", ppu |-> [p EXCEPT !.window_x_position = val]]
      [] OTHER     -> [panic |-> "Invalid PPU write", ppu |-> p]

\* write_ppu: the PPU after the call, or the panic that aborted it
write_ppu(p, addr, val) ==
    CASE addr = 64 -> [panic |-> "", ppu |-> write_lcd_control(p, val)]
      [] addr = 66 -> [panic |-> "", ppu |-> [p EXCEPT !.scroll_y = val]]
      [] addr = 67 -> [panic |-> "", ppu |-> [p EXCEPT !.scroll_x = val]]
      [] addr = 69 -> [panic |-> "", ppu |-> [p EXCEPT !.ly_compare = val]]
      [] addr = 71 ->
            LET pal == write_palette(p.background_palette, val)
            IN [panic |-> palette_panic(pal),
                ppu |-> [p EXCEPT !.background_palette = pal]]
      [] addr = 72 ->
            LET pal == write_palette(p.object_palettes[0], val)
            IN [panic |-> palette_panic(pal),
                ppu |-> [p EXCEPT !.object_palettes[0] = pal]]
      [] addr = 73 ->
            LET pal == write_palette(p.object_palettes[1], val)
            IN [panic |-> palette_panic(pal),
                ppu |-> [p EXCEPT !.object_palettes[1] = pal]]
      [] addr = 74 -> [panic |-> "", ppu |-> [p EXCEPT !.window_y_position = val]]
      [] addr = 75 -> [panic |-> "", ppu |-> [p EXCEPT !.window_x_position = val]]
      [] OTHER     -> [panic |-> "Invalid PPU write", ppu |-> p]

\* read_ppu: the byte returned, or the panic
read_ppu(p, addr) ==
    CASE addr = 66 -> [panic |-> "", val |-> p.scroll_y]
      [] addr = 67 -> [panic |-> "", val |-> p.scroll_x]
      [] addr = 68 -> [panic |-> "", val |-> p.lcdc_y_coordinate]
      [] addr = 69 -> [panic |-> "", val |-> p.ly_compare]
      [] addr = 71 -> [panic |-> "", val |-> read_palette(p.background_palette)]
      [] addr = 72 -> [panic |-> "", val |-> read_palette(p.object_palettes[0])]
      [] addr = 73 -> [panic |-> "", val |-> read_palette(p.object_palettes[1])]
      [] addr = 74 -> [panic |-> "", val |-> p.window_y_position]
      [] addr = 75 -> [panic |-> "", val |-> p.window_x_position]
      [] OTHER     -> [panic |-> "Invalid PPU read", val |-> NoRet]

\* write_sprite_entry: `sprite` is a copy of the table entry (Sprite is Copy);
\* the fields are assigned on the copy and the copy is dropped at the end of
\* the call, the table itself is never assigned.
write_sprite_entry(p, addr, val) ==
    LET sprite_index == Shr(addr, 2)
        sprite_byte  == BitAnd(addr, 3)
    IN IF sprite_index >= N_SPRITES
       THEN [panic |-> "index out of bounds", ppu |-> p]
       ELSE LET sprite == p.sprite_ram[sprite_index]
                local  == CASE sprite_byte = 0 -> [sprite EXCEPT !.position_y = val]
                            [] sprite_byte = 1 -> [sprite EXCEPT !.position_x = val]
                            [] sprite_byte = 2 -> [sprite EXCEPT !.tile_number = val]
                            [] sprite_byte = 3 ->
                                  [sprite EXCEPT
                                      !.priority = BitAnd(val, 128) # 0,
                                      !.flip_y   = BitAnd(val, 64) # 0,
                                      !.flip_x   = BitAnd(val, 32) # 0,
                                      !.palette  = IF BitAnd(val, 128) # 0 THEN 1 ELSE 0]
            IN [panic |-> "", ppu |-> p]

read_sprite_entry(p, addr) ==
    LET sprite_index == Shr(addr, 2)
        sprite_byte  == BitAnd(addr, 3)
    IN IF sprite_index >= N_SPRITES
       THEN [panic |-> "index out of bounds", val |-> NoRet]
       ELSE LET sprite == p.sprite_ram[sprite_index]
            IN [panic |-> "",
                val |-> CASE sprite_byte = 0 -> sprite.position_y
                          [] sprite_byte = 1 -> sprite.position_x
                          [] sprite_byte = 2 -> sprite.tile_number
                          [] sprite_byte = 3 ->
                                AddU8(AddU8(AddU8(AddU8(0,
                                    IF sprite.priority THEN SPRITE_PRIORITY_MASK ELSE 0),
                                    IF sprite.flip_y THEN SPRITE_FLIP_Y_MASK ELSE 0),
                                    IF sprite.flip_x THEN SPRITE_FLIP_X_MASK ELSE 0),
                                    sprite.palette)]

----------------------------------------------------------------------------
(* emulator.rs: the debugger *)

MaxAddr == 1        \* breakpoint addresses are 0x0150 .. 0x0150 + MaxAddr
MaxSteps == 2       \* gb.step() calls per run

\* the addresses `b` is typed with: 0x0150 and the ones after it
Addrs == 336..(336 + MaxAddr)

\* the values the program counter takes: the power-on address and Addrs
PCs == {0} \cup Addrs

\* Option<DebugCommand>
Command(kind, arg, reg) == [kind |-> kind, arg |-> arg, reg |-> reg]
None == Command("None", 0, "")

Whitespace == {" ", "\t", "\n"}

RECURSIVE split_from(_, _, _)
split_from(s, cur, acc) ==
    IF s = <<>> THEN (IF cur = <<>> THEN acc ELSE Append(acc, cur))
    ELSE IF Head(s) \in Whitespace
         THEN split_from(Tail(s), <<>>, IF cur = <<>> THEN acc ELSE Append(acc, cur))
         ELSE split_from(Tail(s), Append(cur, Head(s)), acc)

\* str::split_whitespace: the maximal runs of non-whitespace characters
split_whitespace(s) == split_from(s, <<>>, <<>>)

\* char::to_digit
to_digit(c, radix) ==
    LET d == CASE c = "0" -> 0 [] c = "1" -> 1 [] c = "2" -> 2 [] c = "3" -> 3
               [] c = "4" -> 4 [] c = "5" -> 5 [] c = "6" -> 6 [] c = "7" -> 7
               [] c = "8" -> 8 [] c = "9" -> 9
               [] c \in {"a", "A"} -> 10 [] c \in {"b", "B"} -> 11
               [] c \in {"c", "C"} -> 12 [] c \in {"d", "D"} -> 13
               [] c \in {"e", "E"} -> 14 [] c \in {"f", "F"} -> 15
               [] OTHER -> -1
    IN IF d >= 0 /\ d < radix THEN d ELSE -1

Err == -1

RECURSIVE parse_digits(_, _, _)
parse_digits(s, radix, acc) ==
    IF s = <<>> THEN acc
    ELSE LET d == to_digit(Head(s), radix)
         IN IF d = -1 \/ acc * radix + d > 65535 THEN Err
            ELSE parse_digits(Tail(s), radix, acc * radix + d)

\* u16::from_str_radix: the number, or Err
from_str_radix(src, radix) ==
    LET digits == IF src # <<>> /\ Head(src) = "+" THEN Tail(src) ELSE src
    IN IF digits = <<>> THEN Err ELSE parse_digits(digits, radix, 0)

LowerCase == <<"a", "b", "c", "d", "e", "f", "g", "h", "i", "j", "k", "l", "m",
               "n", "o", "p", "q", "r", "s", "t", "u", "v", "w", "x", "y", "z">>
UpperCase == <<"A", "B", "C", "D", "E", "F", "G", "H", "I", "J", "K", "L", "M",
               "N", "O", "P", "Q", "R", "S", "T", "U", "V", "W", "X", "Y", "Z">>

\* str::to_uppercase
to_uppercase(s) ==
    [i \in 1..Len(s) |->
        IF \E k \in 1..26 : LowerCase[k] = s[i]
        THEN UpperCase[CHOOSE k \in 1..26 : LowerCase[k] = s[i]]
        ELSE s[i]]

\* the register names `p` accepts, as written in the match of parse_debug_operation
RegisterNames ==
    {<<"A">>, <<"F">>, <<"B">>, <<"C">>, <<"D">>, <<"E">>, <<"H">>, <<"L">>,
     <<"S", "P">>, <<"P", "C">>, <<"B", "C">>, <<"D", "E">>, <<"H", "L">>}

RegisterName(s) == IF Len(s) = 1 THEN s[1] ELSE s[1] \o s[2]

parse_debug_operation_lax_arity(input) ==
    LET chunks == split_whitespace(input)
    IN IF Len(chunks) = 0 THEN None
       ELSE CASE chunks[1] = <<"c">> -> Command("Continue", 0, "")
              [] chunks[1] = <<"b">> ->
                    IF Len(chunks) < 2 THEN None
                    ELSE LET addr == from_str_radix(chunks[2], 16)
                         IN IF addr # Err THEN Command("SetBreakpoint", addr, "") ELSE None
              [] chunks[1] = <<"p", "a">> -> Command("PrintCpuRegs", 0, "")
              [] chunks[1] = <<"p">> ->
                    IF Len(chunks) # 2 THEN None
                    ELSE LET up == to_uppercase(chunks[2])
                         IN IF up \in RegisterNames
                            THEN Command("PrintRegister", 0, RegisterName(up))
                            ELSE None
              [] chunks[1] = <<"q">> -> Command("Quit", 0, "")
              [] chunks[1] = <<"d">> ->
                    IF Len(chunks) # 2 THEN None
                    ELSE LET n == from_str_radix(chunks[2], 10)
                         IN IF n # Err THEN Command("Disassemble", n, "") ELSE None
              [] chunks[1] = <<"s">> -> Command("Step", 0, "")
              [] chunks[1] = <<>> -> Command("LastCommand", 0, "")
              [] OTHER -> None

parse_debug_operation(input) ==
    LET chunks == split_whitespace(input)
    IN IF Len(chunks) = 0 THEN None
       ELSE CASE chunks[1] = <<"c">> -> Command("Continue", 0, "")
              [] chunks[1] = <<"b">> ->
                    IF Len(chunks) # 2 THEN None
                    ELSE LET addr == from_str_radix(chunks[2], 16)
                         IN IF addr # Err THEN Command("SetBreakpoint", addr, "") ELSE None
              [] chunks[1] = <<"p", "a">> -> Command("PrintCpuRegs", 0, "")
              [] chunks[1] = <<"p">> ->
                    IF Len(chunks) # 2 THEN None
                    ELSE LET up == to_uppercase(chunks[2])
                         IN IF up \in RegisterNames
                            THEN Command("PrintRegister", 0, RegisterName(up))
                            ELSE None
              [] chunks[1] = <<"q">> -> Command("Quit", 0, "")
              [] chunks[1] = <<"d">> ->
                    IF Len(chunks) # 2 THEN None
                    ELSE LET n == from_str_radix(chunks[2], 10)
                         IN IF n # Err THEN Command("Disassemble", n, "") ELSE None
              [] chunks[1] = <<"s">> -> Command("Step", 0, "")
              [] chunks[1] = <<>> -> Command("LastCommand", 0, "")
              [] OTHER -> None

\* execute_debug_command, SetBreakpoint arm: the breakpoint set after the command
SetBreakpoint_insert_only(bps, addr) == bps \cup {addr}

SetBreakpoint(bps, addr) ==
    IF addr \in bps THEN bps \ {addr} ELSE bps \cup {addr}

\* gb.step(): one instruction of the processing core; where it leaves the
\* program counter is the core's business
GB_step ==
    /\ steps < MaxSteps
    /\ pc' \in PCs
    /\ steps' = steps + 1

\* execute_debug_command, Continue arm: the condition of the while loop
ContinueCondition_do_while == steps = cont.start_steps \/ pc \notin breakpoints

ContinueCondition == pc \notin breakpoints

\* gb.read_8bit_register / gb.read_16bit_register: a read of the register file
GB_read_register == UNCHANGED <<pc, steps>>

\* the Display of the processing core's registers
Cpu_fmt == UNCHANGED <<pc, steps>>

\* gb.get_next_instructions(n): lookahead that does not advance the core
GB_get_next_instructions(n) == UNCHANGED <<pc, steps>>

execute_debug_command_step_guarded(comm) ==
    \/ /\ comm.kind = "SetBreakpoint"
       /\ breakpoints' = SetBreakpoint(breakpoints, comm.arg)
       /\ UNCHANGED <<pc, steps>>
    \/ /\ comm.kind = "Step"
       /\ IF pc \in breakpoints THEN UNCHANGED <<pc, steps>> ELSE GB_step
       /\ UNCHANGED breakpoints
    \/ /\ comm.kind = "PrintRegister"
       /\ GB_read_register
       /\ UNCHANGED breakpoints
    \/ /\ comm.kind = "PrintCpuRegs"
       /\ Cpu_fmt
       /\ UNCHANGED breakpoints
    \/ /\ comm.kind = "Disassemble"
       /\ GB_get_next_instructions(comm.arg)
       /\ UNCHANGED breakpoints

execute_debug_command_disassemble_steps(comm) ==
    \/ /\ comm.kind = "SetBreakpoint"
       /\ breakpoints' = SetBreakpoint(breakpoints, comm.arg)
       /\ UNCHANGED <<pc, steps>>
    \/ /\ comm.kind = "Step"
       /\ GB_step
       /\ UNCHANGED breakpoints
    \/ /\ comm.kind = "PrintRegister"
       /\ GB_read_register
       /\ UNCHANGED breakpoints
    \/ /\ comm.kind = "PrintCpuRegs"
       /\ Cpu_fmt
       /\ UNCHANGED breakpoints
    \/ /\ comm.kind = "Disassemble"
       /\ IF comm.arg > 0 THEN GB_step ELSE UNCHANGED <<pc, steps>>
       /\ UNCHANGED breakpoints

\* execute_debug_command for the commands that return at once
execute_debug_command(comm) ==
    \/ /\ comm.kind = "SetBreakpoint"
       /\ breakpoints' = SetBreakpoint(breakpoints, comm.arg)
       /\ UNCHANGED <<pc, steps>>
    \/ /\ comm.kind = "Step"
       /\ GB_step
       /\ UNCHANGED breakpoints
    \/ /\ comm.kind = "PrintRegister"
       /\ GB_read_register
       /\ UNCHANGED breakpoints
    \/ /\ comm.kind = "PrintCpuRegs"
       /\ Cpu_fmt
       /\ UNCHANGED breakpoints
    \/ /\ comm.kind = "Disassemble"
       /\ GB_get_next_instructions(comm.arg)
       /\ UNCHANGED breakpoints

----------------------------------------------------------------------------
(* The lines typed at the prompt *)

HexChars == <<"0", "1", "2", "3", "4", "5", "6", "7", "8", "9", "A", "B", "C", "D", "E", "F">>
HexDigit(a, shift) == HexChars[((a \div shift) % 16) + 1]
Hex4(a) == <<HexDigit(a, 4096), HexDigit(a, 256), HexDigit(a, 16), HexDigit(a, 1)>>

BreakLine(a) == <<"b", " ">> \o Hex4(a) \o <<"\n">>

InputLines ==
    { <<"c", "\n">>, <<"s", "\n">>, <<"q", "\n">>, <<"p", "a", "\n">>,
      <<"p", " ", "h", "l", "\n">>, <<"p", " ", "z", "\n">>, <<"p", "\n">>,
      <<"d", " ", "3", "\n">>, <<"d", " ", "f", "\n">>,
      <<"b", "\n">>, <<"b", " ", "0", "1", "z", "\n">>,
      <<"b", " ", "1", "0", "0", "0", "0", "\n">>,
      <<"b", " ", "0", "1", "5", "0", " ", "0", "1", "5", "1", "\n">>,
      <<"q", " ", "1", "\n">>,
      <<"x", "\n">>, <<"\n">>, <<" ", "\n">>, <<>> }
    \cup { BreakLine(a) : a \in Addrs }

----------------------------------------------------------------------------
(* Calls on the peripheral register file *)

\* the offsets the calls are made with: every dispatch range of write_byte and
\* read_byte with its two ends and its neighbours
IOAddrs == {0, 1, 14, 15, 16, 24, 38, 39, 63, 64, 68, 75, 76, 79, 80, 81, 254, 255}

WriteByte(addr, val) ==
    /\ panicked = ""
    /\ LET r == write_byte(gbio, addr, val)
       IN /\ gbio' = r.io
          /\ panicked' = r.panic
    /\ op' = [name |-> "write_byte", addr |-> addr, val |-> val]
    /\ ret' = NoRet
    /\ UNCHANGED <<ppu, dbgVars, calls>>

ReadByte(addr) ==
    /\ panicked = ""
    /\ LET r == read_byte(gbio, addr)
       IN /\ ret' = r.val
          /\ panicked' = r.panic
    /\ op' = [name |-> "read_byte", addr |-> addr, val |-> 0]
    /\ UNCHANGED <<gbio, ppu, dbgVars, calls>>

(* Calls on the joypad *)

WriteJoypad(val) ==
    /\ gbio' = [gbio EXCEPT !.joypad = write_joypad(gbio.joypad, val)]
    /\ op' = [name |-> "write_joypad", addr |-> 0, val |-> val]
    /\ ret' = NoRet
    /\ UNCHANGED <<ppu, dbgVars, panicked, calls>>

ReadJoypad ==
    /\ ret' = read_joypad(gbio.joypad)
    /\ op' = [name |-> "read_joypad", addr |-> 0, val |-> 0]
    /\ UNCHANGED <<gbio, ppu, dbgVars, panicked, calls>>

(* Calls on the PPU *)

MaxSprite == 1      \* sprite entries 0..MaxSprite are addressed, and the last one

PPUAddrs == 63..76      \* 0x3F..0x4C: the documented registers and their neighbours
PaletteAddrs == {71, 72, 73}

\* the offsets into the sprite table the calls are made with: all four fields of
\* the first entries, of the last entry, and of two entries past the table
OAMEntries == (0..MaxSprite) \cup {N_SPRITES - 1, N_SPRITES, 63}
OAMAddrs == {e * 4 + f : e \in OAMEntries, f \in 0..3}

WritePPU(addr, val) ==
    /\ panicked = ""
    /\ calls < MaxCalls
    /\ LET r == write_ppu(ppu, addr, val)
       IN /\ ppu' = r.ppu
          /\ panicked' = r.panic
    /\ op' = [name |-> "write_ppu", addr |-> addr, val |-> val]
    /\ ret' = NoRet
    /\ calls' = calls + 1
    /\ UNCHANGED <<gbio, dbgVars>>

ReadPPU(addr) ==
    /\ panicked = ""
    /\ calls < MaxCalls
    /\ LET r == read_ppu(ppu, addr)
       IN /\ ret' = r.val
          /\ panicked' = r.panic
    /\ op' = [name |-> "read_ppu", addr |-> addr, val |-> 0]
    /\ calls' = calls + 1
    /\ UNCHANGED <<gbio, ppu, dbgVars>>

WriteSpriteEntry(addr, val) ==
    /\ panicked = ""
    /\ LET r == write_sprite_entry(ppu, addr, val)
       IN /\ ppu' = r.ppu
          /\ panicked' = r.panic
    /\ op' = [name |-> "write_sprite_entry", addr |-> addr, val |-> val]
    /\ ret' = NoRet
    /\ UNCHANGED <<gbio, dbgVars, calls>>

ReadSpriteEntry(addr) ==
    /\ panicked = ""
    /\ LET r == read_sprite_entry(ppu, addr)
       IN /\ ret' = r.val
          /\ panicked' = r.panic
    /\ op' = [name |-> "read_sprite_entry", addr |-> addr, val |-> 0]
    /\ UNCHANGED <<gbio, ppu, dbgVars, calls>>

(* run_debug_mode *)

\* one turn of the loop: read a line, parse it, run the command
DebugLine(line) ==
    /\ loc = "prompt"
    /\ LET comm == parse_debug_operation(line)
       IN /\ op' = [name |-> "read_line", line |-> line, comm |-> comm]
          /\ IF comm = None
             THEN UNCHANGED dbgVars
             ELSE IF comm.kind = "Quit"
             THEN loc' = "done" /\ UNCHANGED <<breakpoints, last_command, pc, steps, cont>>
             ELSE IF comm.kind = "LastCommand"
             THEN last_command' = comm /\ UNCHANGED <<breakpoints, pc, loc, steps, cont>>
             ELSE IF comm.kind = "Continue"
             THEN /\ loc' = "continue"
                  /\ cont' = [start_pc |-> pc, start_steps |-> steps]
                  /\ UNCHANGED <<breakpoints, last_command, pc, steps>>
             ELSE /\ execute_debug_command(comm)
                  /\ last_command' = comm
                  /\ UNCHANGED <<loc, cont>>
    /\ UNCHANGED <<gbio, ppu, ret, panicked, calls>>

InputError_breaks ==
    /\ loc = "prompt"
    /\ loc' = "done"
    /\ op' = [name |-> "input_error", line |-> <<>>, comm |-> None]
    /\ UNCHANGED <<gbio, ppu, breakpoints, last_command, pc, steps, cont, ret, panicked, calls>>

\* stdin.read_line failed: "Input error", back to the prompt
InputError ==
    /\ loc = "prompt"
    /\ op' = [name |-> "input_error", line |-> <<>>, comm |-> None]
    /\ UNCHANGED <<gbio, ppu, dbgVars, ret, panicked, calls>>

\* one iteration of the while loop of Continue
ContinueStep ==
    /\ loc = "continue"
    /\ ContinueCondition
    /\ GB_step
    /\ op' = [name |-> "continue_step", line |-> <<>>, comm |-> Command("Continue", 0, "")]
    /\ UNCHANGED <<gbio, ppu, breakpoints, last_command, loc, cont, ret, panicked, calls>>

\* the while loop of Continue ends; run_debug_mode records the command
ContinueReturn ==
    /\ loc = "continue"
    /\ ~ContinueCondition
    /\ loc' = "prompt"
    /\ last_command' = Command("Continue", 0, "")
    /\ op' = [name |-> "continue_return", line |-> <<>>, comm |-> Command("Continue", 0, "")]
    /\ UNCHANGED <<gbio, ppu, breakpoints, pc, steps, cont, ret, panicked, calls>>

\* gb.step() in a run that is followed past MaxSteps: the count of the steps
\* is kept modulo MaxSteps + 1, so that no step is the last one
GB_step_free ==
    /\ pc' \in PCs
    /\ steps' = (steps + 1) % (MaxSteps + 1)

ContinueRun_interruptible ==
    /\ loc = "continue"
    /\ ContinueCondition
    /\ \/ /\ GB_step_free
          /\ op' = [name |-> "continue_step", line |-> <<>>, comm |-> Command("Continue", 0, "")]
          /\ UNCHANGED <<last_command, loc>>
       \/ /\ loc' = "prompt"
          /\ last_command' = Command("Continue", 0, "")
          /\ op' = [name |-> "continue_return", line |-> <<>>, comm |-> Command("Continue", 0, "")]
          /\ UNCHANGED <<pc, steps>>
    /\ UNCHANGED <<gbio, ppu, breakpoints, cont, ret, panicked, calls>>

\* one iteration of the while loop of Continue, in a run of any length
ContinueRun ==
    /\ loc = "continue"
    /\ ContinueCondition
    /\ GB_step_free
    /\ op' = [name |-> "continue_step", line |-> <<>>, comm |-> Command("Continue", 0, "")]
    /\ UNCHANGED <<gbio, ppu, breakpoints, last_command, loc, cont, ret, panicked, calls>>

----------------------------------------------------------------------------
(* Specifications *)

InitCommon ==
    /\ ppu = PPU_default
    /\ breakpoints = {}
    /\ last_command = None
    /\ loc = "prompt"
    /\ steps = 0
    /\ cont = [start_pc |-> 0, start_steps |-> 0]
    /\ op = NoOp
    /\ ret = NoRet
    /\ panicked = ""
    /\ calls = 0

Init ==
    /\ InitCommon
    /\ gbio = GBIO_new
    /\ pc = 0

\* the peripheral register file
NextIO ==
    \/ \E addr \in IOAddrs, val \in Vals : WriteByte(addr, val)
    \/ \E addr \in IOAddrs : ReadByte(addr)

SpecIO == Init /\ [][NextIO]_vars

\* the joypad, from every value of the Joypad struct
InitJoypad ==
    /\ InitCommon
    /\ \E j \in JoypadStates : gbio = [GBIO_new EXCEPT !.joypad = j]
    /\ pc = 0

NextJoypad ==
    \/ \E val \in Vals : WriteJoypad(val)
    \/ ReadJoypad

SpecJoypad == InitJoypad /\ [][NextJoypad]_vars

\* the PPU registers
NextPPU ==
    \/ \E addr \in PPUAddrs, val \in Vals : WritePPU(addr, val)
    \/ \E addr \in PPUAddrs : ReadPPU(addr)

SpecPPU == Init /\ [][NextPPU]_vars

\* the sprite attribute table
NextOAM ==
    \/ \E addr \in OAMAddrs, val \in Vals : WriteSpriteEntry(addr, val)
    \/ \E addr \in OAMAddrs : ReadSpriteEntry(addr)

SpecOAM == Init /\ [][NextOAM]_vars

\* the three palette registers of the PPU
NextPalette ==
    \/ \E addr \in PaletteAddrs, val \in Vals : WritePPU(addr, val)
    \/ \E addr \in PaletteAddrs : ReadPPU(addr)

SpecPalette == Init /\ [][NextPalette]_vars

\* the debugger
InitDbg ==
    /\ InitCommon
    /\ gbio = GBIO_new
    /\ pc \in PCs

NextDbg ==
    \/ \E line \in InputLines : DebugLine(line)
    \/ InputError
    \/ ContinueStep
    \/ ContinueReturn

SpecDbg == InitDbg /\ [][NextDbg]_vars

\* the debugger with runs of any length: the thread that is inside the while
\* loop of Continue keeps running, while the user at the prompt may never type;
\* the lines typed are the ones that start a run, step, quit or set a breakpoint
RunLines ==
    { <<"c", "\n">>, <<"s", "\n">>, <<"q", "\n">> } \cup { BreakLine(a) : a \in Addrs }

NextRun ==
    \/ \E line \in RunLines : DebugLine(line)
    \/ InputError
    \/ ContinueRun
    \/ ContinueReturn

SpecRun ==
    /\ InitDbg
    /\ [][NextRun]_vars
    /\ WF_vars(ContinueRun)
    /\ WF_vars(ContinueReturn)

----------------------------------------------------------------------------
(* Properties *)

Bit(v, n) == (v \div Pow2(n)) % 2 = 1

WroteByte(addr) == op.name = "write_byte" /\ op.addr = addr /\ panicked = ""

\* C1: boot_sequence() is true at power-on, a nonzero write to offset 0x50
\* makes it false, and once it is false no later write makes it true again.
C1_BootFlagMonotonic ==
    /\ boot_sequence(gbio)
    /\ [][ /\ (op'.name = "write_byte" /\ op'.addr = 80 /\ op'.val # 0)
                => ~boot_sequence(gbio')
           /\ ~boot_sequence(gbio) => ~boot_sequence(gbio') ]_vars

\* C2 as stated: after write_flags(v) read_flags() returns v, and after
\* write_enable(v) read_enable() returns v, for every byte v.
C2_RoundTripEveryByte ==
    /\ WroteByte(15) => read_flags(gbio.interrupt) = op.val
    /\ WroteByte(255) => read_enable(gbio.interrupt) = op.val

\* C2 amended: from every interrupt state and for every byte v, write_flags(v)
\* then read_flags() returns the low five bits of v (v mod 32), and
\* write_enable(v) then read_enable() returns the low five bits of v; the
\* byte comes back unchanged exactly when v <= 31.
C2_RoundTripLowFiveBits ==
    /\ \A v \in Byte :
          /\ read_flags(write_flags(gbio.interrupt, v)) = v % 32
          /\ read_enable(write_enable(gbio.interrupt, v)) = v % 32
    /\ WroteByte(15) => read_byte(gbio, 15) = [panic |-> "", val |-> op.val % 32]
    /\ WroteByte(255) => read_byte(gbio, 255) = [panic |-> "", val |-> op.val % 32]

\* 0xFF was written to IE after 0x33 had been written to IF: IE reads 0x1F, IF 0x13
C2_Witness ==
    /\ WroteByte(255) /\ op.val = 255
    /\ read_enable(gbio.interrupt) = 31
    /\ read_flags(gbio.interrupt) = 19

PaletteAt(p, addr) ==
    CASE addr = 71 -> p.background_palette
      [] addr = 72 -> p.object_palettes[0]
      [] addr = 73 -> p.object_palettes[1]

\* C3: for every byte v and each of 0x47, 0x48, 0x49, write_ppu(addr, v) does
\* not panic, a following read_ppu(addr) returns v, and entry i of the palette
\* written holds the colour whose code is bits 2i..2i+1 of v.
C3_PaletteRoundTrip ==
    /\ \A addr \in PaletteAddrs, v \in Byte :
          LET r == write_ppu(ppu, addr, v)
          IN /\ r.panic = ""
             /\ read_ppu(r.ppu, addr) = [panic |-> "", val |-> v]
             /\ \A i \in 0..3 :
                   Color_to_bits(PaletteAt(r.ppu, addr)[i]) = (v \div Pow2(2 * i)) % 4
    /\ (op.name = "write_ppu" /\ op.addr \in PaletteAddrs) =>
          /\ panicked = ""
          /\ read_ppu(ppu, op.addr) = [panic |-> "", val |-> op.val]

\* 0x99 was written to OBP1 after another palette had been written: OBP1 reads
\* 0x99 and holds LightGray, DarkGray, LightGray, DarkGray
C3_Witness ==
    /\ op.name = "write_ppu" /\ op.addr = 73 /\ op.val = 153
    /\ calls = 2
    /\ read_ppu(ppu, 73).val = 153
    /\ ppu.object_palettes[1] = [i \in 0..3 |-> IF i % 2 = 0 THEN "LightGray" ELSE "DarkGray"]
    /\ \E a \in {71, 72} : read_ppu(ppu, a).val # 0

\* C4: a write_sprite_entry at (e<<2)|f with e in 0..39 is stored in entry e of
\* the table, and a read_sprite_entry at the same offset returns the byte
\* written for f in 0..2 and the packed attribute byte (the high nibble) for f = 3.
C4_SpriteRoundTrip ==
    (op.name = "write_sprite_entry" /\ op.addr \div 4 < 40) =>
        /\ panicked = ""
        /\ read_sprite_entry(ppu, op.addr) =
              [panic |-> "",
               val |-> IF op.addr % 4 = 3 THEN op.val - (op.val % 16) ELSE op.val]

BoolBit(b, n) == IF b THEN Pow2(n) ELSE 0

DirectionNibble(j) ==
    BoolBit(j.input_right, 0) + BoolBit(j.input_left, 1)
        + BoolBit(j.input_up, 2) + BoolBit(j.input_down, 3)

ButtonsNibble(j) ==
    BoolBit(j.input_a, 0) + BoolBit(j.input_b, 1)
        + BoolBit(j.input_select, 2) + BoolBit(j.input_start, 3)

\* C5: with the Direction bank selected read_joypad() is right, left, up, down
\* on bits 0..3 and no change of A, B, Select, Start changes it; with the
\* Buttons bank selected it is A, B, Select, Start on bits 0..3 and no change of
\* the direction flags changes it; it is always within 0..15.
C5_BankIsolation ==
    LET j == gbio.joypad
    IN /\ read_joypad(j) \in 0..15
       /\ j.selected_input = "Direction" =>
             /\ read_joypad(j) = DirectionNibble(j)
             /\ \A a, b, se, st \in BOOLEAN :
                   read_joypad([j EXCEPT !.input_a = a, !.input_b = b,
                                         !.input_select = se, !.input_start = st])
                       = read_joypad(j)
       /\ j.selected_input = "Buttons" =>
             /\ read_joypad(j) = ButtonsNibble(j)
             /\ \A r, l, u, d \in BOOLEAN :
                   read_joypad([j EXCEPT !.input_right = r, !.input_left = l,
                                         !.input_up = u, !.input_down = d])
                       = read_joypad(j)
       /\ op.name = "read_joypad" =>
             ret = IF j.selected_input = "Direction"
                   THEN DirectionNibble(j) ELSE ButtonsNibble(j)

\* the Buttons bank was read with A and Start held, Select released and every
\* direction held: the read returns 9
C5_Witness ==
    /\ op.name = "read_joypad"
    /\ gbio.joypad.selected_input = "Buttons"
    /\ gbio.joypad.input_a /\ gbio.joypad.input_start
    /\ ~gbio.joypad.input_b /\ ~gbio.joypad.input_select
    /\ gbio.joypad.input_up /\ gbio.joypad.input_down
    /\ gbio.joypad.input_left /\ gbio.joypad.input_right
    /\ ret = 9

\* C6: from either bank, write_joypad(v) with bit 5 of v set leaves the bank at
\* Buttons whatever bit 4 is, and with bit 5 clear and bit 4 set leaves it at
\* Direction.
C6_SelectorPrecedence ==
    /\ \A v \in Byte :
          LET after == write_joypad(gbio.joypad, v).selected_input
          IN /\ Bit(v, 5) => after = "Buttons"
             /\ (~Bit(v, 5) /\ Bit(v, 4)) => after = "Direction"
    /\ op.name = "write_joypad" =>
          /\ Bit(op.val, 5) => gbio.joypad.selected_input = "Buttons"
          /\ (~Bit(op.val, 5) /\ Bit(op.val, 4)) => gbio.joypad.selected_input = "Direction"

\* 0x33, with both select bits set, was written: the bank is Buttons
C6_Witness ==
    /\ op.name = "write_joypad" /\ op.val = 51
    /\ Bit(op.val, 5) /\ Bit(op.val, 4)
    /\ gbio.joypad.selected_input = "Buttons"

SetBreakpointCommand(a) == Command("SetBreakpoint", a, "")

Toggled(bps, a) == {x \in bps \cup {a} : (x \in bps) # (x = a)}

\* C7: a SetBreakpoint(a) command flips the membership of a in the breakpoint
\* set and of no other address, so that running it twice gives the set back;
\* `b 0150` is SetBreakpoint(0x0150), and run twice from the empty set it
\* leaves 0x0150 absent.
C7_BreakpointToggle ==
    /\ [][ (op'.name = "read_line" /\ op'.comm.kind = "SetBreakpoint") =>
              /\ breakpoints' = Toggled(breakpoints, op'.comm.arg)
              /\ SetBreakpoint(breakpoints', op'.comm.arg) = breakpoints ]_vars
    /\ [](LET c == parse_debug_operation(BreakLine(336))
          IN /\ c = SetBreakpointCommand(336)
             /\ 336 \notin SetBreakpoint(SetBreakpoint({}, c.arg), c.arg))

\* `b 0150` has just removed 0x0150 from a set that keeps its other breakpoint
C7_Witness ==
    /\ op.name = "read_line"
    /\ op.line = BreakLine(336)
    /\ op.comm = SetBreakpointCommand(336)
    /\ 336 \notin breakpoints
    /\ breakpoints = {337}

\* C8: while a Continue command runs, the core is stepped only when the
\* program counter is outside the breakpoint set; Continue returns with the
\* program counter in the breakpoint set, without a step in between; and a
\* Continue issued with the program counter at a breakpoint makes no step.
C8_ContinueHaltsBeforeBreakpoint ==
    [][ /\ (loc = "continue" /\ steps' # steps) => pc \notin breakpoints
        /\ (loc = "continue" /\ loc' = "prompt") =>
              /\ pc' \in breakpoints'
              /\ pc' = pc /\ steps' = steps
              /\ cont.start_pc \in breakpoints => steps' = cont.start_steps ]_vars

\* Continue has returned at a breakpoint after stepping the core twice
C8_Witness ==
    /\ op.name = "continue_return"
    /\ loc = "prompt"
    /\ pc \in breakpoints
    /\ cont.start_pc \notin breakpoints
    /\ steps = cont.start_steps + 2

\* the offsets C9 lists as accepted by write_byte
C9_AcceptedOffsets == {0, 15, 255, 80} \cup (16..38) \cup (64..75)

\* C9: write_byte(offset, value) succeeds for every offset in
\* {0x00, 0x0F, 0xFF, 0x50}, 0x10..=0x26 and 0x40..=0x4B, and panics for every
\* other offset, leaving the registers as they were.
C9_WriteDispatch ==
    [][ op'.name = "write_byte" =>
           /\ (panicked' = "") <=> (op'.addr \in C9_AcceptedOffsets)
           /\ panicked' # "" => gbio' = gbio ]_vars

\* C10: write_ppu(0x44, v) panics for every v and leaves the PPU as it was, and
\* whatever has been written, read_ppu(0x44) returns the power-on line counter.
C10_LineCounterReadOnly ==
    /\ [](/\ read_ppu(ppu, 68) = [panic |-> "", val |-> PPU_default.lcdc_y_coordinate]
          /\ \A v \in Byte : write_ppu(ppu, 68, v) = [panic |-> "Invalid PPU write", ppu |-> ppu])
    /\ [][ (op'.name = "write_ppu" /\ op'.addr = 68) =>
              (panicked' # "" /\ ppu' = ppu) ]_vars

\* a write to 0x44 has been rejected after another register had been written
C10_Witness ==
    /\ op.name = "write_ppu" /\ op.addr = 68 /\ op.val # 0
    /\ panicked = "Invalid PPU write"
    /\ calls = 2
    /\ ppu # PPU_default
    /\ read_ppu(ppu, 68).val = 0

KnownTokens == {<<"c">>, <<"b">>, <<"p", "a">>, <<"p">>, <<"q">>, <<"d">>, <<"s">>}

\* a line whose first token is no command, or whose b, p or d command does not
\* have exactly one argument, or has one that is no address, register or count
Malformed(line) ==
    LET chunks == split_whitespace(line)
    IN /\ Len(chunks) > 0
       /\ \/ chunks[1] \notin KnownTokens
          \/ chunks[1] \in {<<"b">>, <<"p">>, <<"d">>} /\ Len(chunks) # 2
          \/ chunks[1] = <<"b">> /\ Len(chunks) = 2 /\ from_str_radix(chunks[2], 16) = Err
          \/ chunks[1] = <<"d">> /\ Len(chunks) = 2 /\ from_str_radix(chunks[2], 10) = Err
          \/ chunks[1] = <<"p">> /\ Len(chunks) = 2 /\ to_uppercase(chunks[2]) \notin RegisterNames

ReadLine == op'.name = "read_line"

\* C11: a malformed line is parsed to no command, and the loop then makes no
\* step of the core, leaves the breakpoint set and last_command as they were
\* and is at the prompt again.
C11_MalformedInputRecovered ==
    [][ (ReadLine /\ Malformed(op'.line)) =>
           /\ op'.comm = None
           /\ UNCHANGED <<steps, pc, breakpoints, last_command>>
           /\ loc' = "prompt" ]_vars

\* `b 0150 0151` was typed with a breakpoint set and a command recorded
C11_Witness ==
    /\ op.name = "read_line"
    /\ op.line = <<"b", " ", "0", "1", "5", "0", " ", "0", "1", "5", "1", "\n">>
    /\ Malformed(op.line)
    /\ op.comm = None
    /\ breakpoints = {336}
    /\ last_command = SetBreakpointCommand(336)
    /\ loc = "prompt"

\* C13: a Step command makes exactly one step of the core, whether or not the
\* program counter is in the breakpoint set before or after it, and leaves the
\* breakpoint set as it was.
C13_StepExecutesOne ==
    [][ (ReadLine /\ op'.comm.kind = "Step") =>
           /\ steps' = steps + 1
           /\ breakpoints' = breakpoints
           /\ loc' = "prompt" ]_vars

\* a second Step has ended with the program counter at a breakpoint
C13_Witness ==
    /\ op.name = "read_line" /\ op.comm.kind = "Step"
    /\ last_command.kind = "Step"
    /\ pc \in breakpoints
    /\ steps = 2

\* C14: Disassemble(n), PrintRegister(r) and PrintCpuRegs make no step of the
\* core and leave the program counter and the breakpoint set as they were.
C14_InspectionIsPure ==
    [][ (ReadLine /\ op'.comm.kind \in {"Disassemble", "PrintRegister", "PrintCpuRegs"}) =>
           /\ UNCHANGED <<steps, pc, breakpoints>>
           /\ loc' = "prompt" ]_vars

\* `d 3` was typed after a step, with a breakpoint set
C14_Witness ==
    /\ op.name = "read_line"
    /\ op.comm = Command("Disassemble", 3, "")
    /\ steps = 1
    /\ breakpoints # {}

BlankLine(line) == split_whitespace(line) = <<>>

\* C15: an empty or whitespace-only line is parsed as LastCommand and recorded
\* in last_command, without a step of the core or a change of the breakpoint set.
C15_EmptyInputIsLastCommand ==
    [][ (ReadLine /\ BlankLine(op'.line)) =>
           /\ op'.comm = Command("LastCommand", 0, "")
           /\ last_command' = op'.comm
           /\ UNCHANGED <<steps, pc, breakpoints>> ]_vars

QuitLine(line) ==
    LET chunks == split_whitespace(line)
    IN Len(chunks) > 0 /\ chunks[1] = <<"q">>

\* C16: the loop ends when and only when a `q` line is read; Quit makes no step
\* and changes no breakpoint; an input error, a line that is no command, and
\* every other command that returns lead back to the prompt.
C16_LoopEndsOnlyOnQuit ==
    [][ /\ (loc' = "done") <=> (ReadLine /\ QuitLine(op'.line))
        /\ (ReadLine /\ QuitLine(op'.line)) =>
              (op'.comm.kind = "Quit" /\ UNCHANGED <<steps, pc, breakpoints>>)
        /\ op'.name \in {"input_error", "continue_return"} => loc' = "prompt"
        /\ (ReadLine /\ ~QuitLine(op'.line) /\ op'.comm.kind # "Continue") =>
              loc' = "prompt" ]_vars

\* `q` has ended the loop after a step, with a breakpoint set
C16_Witness ==
    /\ loc = "done"
    /\ op.name = "read_line" /\ op.comm.kind = "Quit"
    /\ steps = 1
    /\ breakpoints # {}

\* C12: write_ppu(0x40, v) sets each of the eight LCD-control flags from its
\* own bit of v, and a following read_ppu(0x40) succeeds and returns v.
C12_LcdControlRoundTrip ==
    (op.name = "write_ppu" /\ op.addr = 64) =>
        /\ panicked = ""
        /\ ppu.lcd_display_enabled = Bit(op.val, 7)
        /\ ppu.window_tile_map_address = Bit(op.val, 6)
        /\ ppu.window_enabled = Bit(op.val, 5)
        /\ ppu.background_window_tile_data_address = Bit(op.val, 4)
        /\ ppu.background_tile_map_address = Bit(op.val, 3)
        /\ ppu.sprite_size = Bit(op.val, 2)
        /\ ppu.sprites_enabled = Bit(op.val, 1)
        /\ ppu.background_enabled = Bit(op.val, 0)
        /\ read_ppu(ppu, 64) = [panic |-> "", val |-> op.val]

WritesByte(addr) == op'.name = "write_byte" /\ op'.addr = addr /\ panicked' = ""

\* C17: read_flags() and read_enable() are 0 at power-on and always within
\* 0..0x1F; a write to IF makes read_flags() the low five bits of the byte
\* written and leaves read_enable() as it was, a write to IE does the same
\* the other way round, and no other call changes either; write_enable(0x1F)
\* then write_flags(0x01) gives read_enable() = 0x1F and read_flags() = 0x01.
C17_InterruptRegistersIndependent ==
    /\ read_flags(gbio.interrupt) = 0 /\ read_enable(gbio.interrupt) = 0
    /\ [](LET i == gbio.interrupt
          IN /\ read_flags(i) \in 0..31 /\ read_enable(i) \in 0..31
             /\ \A v \in Byte :
                   /\ read_enable(write_flags(i, v)) = read_enable(i)
                   /\ read_flags(write_enable(i, v)) = read_flags(i)
             /\ read_enable(write_flags(write_enable(i, 31), 1)) = 31
             /\ read_flags(write_flags(write_enable(i, 31), 1)) = 1)
    /\ [][ /\ WritesByte(15) =>
                 /\ read_flags(gbio'.interrupt) = op'.val % 32
                 /\ read_enable(gbio'.interrupt) = read_enable(gbio.interrupt)
           /\ WritesByte(255) =>
                 /\ read_enable(gbio'.interrupt) = op'.val % 32
                 /\ read_flags(gbio'.interrupt) = read_flags(gbio.interrupt)
           /\ ~(WritesByte(15) \/ WritesByte(255)) =>
                 /\ read_flags(gbio'.interrupt) = read_flags(gbio.interrupt)
                 /\ read_enable(gbio'.interrupt) = read_enable(gbio.interrupt) ]_vars

\* 0xCC was written to IE after 0xFF: IE reads 0x0C, and IF still reads 0x13
C17_Witness ==
    /\ WroteByte(255) /\ op.val = 204
    /\ read_enable(gbio.interrupt) = 12
    /\ read_flags(gbio.interrupt) = 19

ButtonFlags(j) ==
    <<j.input_up, j.input_down, j.input_left, j.input_right,
      j.input_a, j.input_b, j.input_start, j.input_select>>

SelectedBy(v, bank) ==
    IF Bit(v, 5) THEN "Buttons" ELSE IF Bit(v, 4) THEN "Direction" ELSE bank

\* C18: write_joypad(v) leaves the eight button flags as they were for every
\* byte v, leaves the bank as it was when bits 5 and 4 of v are clear, and no
\* other call changes the bank; the bank is Direction at power-on.
C18_WriteJoypadIsSelectorUpdate ==
    /\ [](/\ \A v \in Byte :
                LET w == write_joypad(gbio.joypad, v)
                IN /\ ButtonFlags(w) = ButtonFlags(gbio.joypad)
                   /\ w.selected_input = SelectedBy(v, gbio.joypad.selected_input)
          /\ GBIO_new.joypad.selected_input = "Direction")
    /\ [][ /\ op'.name = "write_joypad" =>
                 /\ ButtonFlags(gbio'.joypad) = ButtonFlags(gbio.joypad)
                 /\ gbio'.joypad.selected_input
                        = SelectedBy(op'.val, gbio.joypad.selected_input)
           /\ op'.name # "write_joypad" => gbio'.joypad = gbio.joypad ]_vars

\* 0xCC, with both select bits clear, was written with the Buttons bank
\* selected and buttons held: the bank is still Buttons
C18_Witness ==
    /\ op.name = "write_joypad" /\ op.val = 204
    /\ ~Bit(op.val, 5) /\ ~Bit(op.val, 4)
    /\ gbio.joypad.selected_input = "Buttons"
    /\ gbio.joypad.input_a /\ gbio.joypad.input_up /\ ~gbio.joypad.input_b

SoundOffsets == 16..38

\* C19: for every offset in 0x10..=0x26 and every value, write_byte succeeds
\* and leaves the joypad, the interrupt flags and the boot flag as they were.
C19_SoundWritesInert ==
    /\ [](\A addr \in SoundOffsets, v \in Byte :
             write_byte(gbio, addr, v) = [panic |-> "", io |-> gbio])
    /\ [][ (op'.name = "write_byte" /\ op'.addr \in SoundOffsets) =>
              (panicked' = "" /\ gbio' = gbio) ]_vars

\* 0x26 was written after the registers had left their power-on values
C19_Witness ==
    /\ op.name = "write_byte" /\ op.addr = 38 /\ op.val = 255
    /\ panicked = ""
    /\ ~gbio.boot
    /\ gbio.joypad.selected_input = "Buttons"
    /\ read_flags(gbio.interrupt) = 19
    /\ read_enable(gbio.interrupt) = 31

PlainAddrs == {66, 67, 69, 74, 75}

OtherRegisters(addr) == (PlainAddrs \cup PaletteAddrs \cup {68}) \ {addr}

\* C20: for each of 0x42, 0x43, 0x45, 0x4A, 0x4B, write_ppu(a, v) followed by
\* read_ppu(a) returns v, and the write leaves what read_ppu returns for the
\* other four, the three palettes and the line counter as it was: for every
\* byte v from the power-on state and the states one call away, and for every
\* write made from any state.
C20_PlainRegistersIndependent ==
    /\ [](calls <= 1 =>
            \A addr \in PlainAddrs, v \in Byte :
                LET r == write_ppu(ppu, addr, v)
                IN /\ r.panic = ""
                   /\ read_ppu(r.ppu, addr) = [panic |-> "", val |-> v]
                   /\ \A b \in OtherRegisters(addr) :
                         read_ppu(r.ppu, b) = read_ppu(ppu, b))
    /\ [][ (op'.name = "write_ppu" /\ op'.addr \in PlainAddrs) =>
              /\ panicked' = ""
              /\ read_ppu(ppu', op'.addr) = [panic |-> "", val |-> op'.val]
              /\ \A b \in OtherRegisters(op'.addr) :
                    read_ppu(ppu', b) = read_ppu(ppu, b) ]_vars

\* 0x99 was written to SCX after 0x33 had been written to SCY
C20_Witness ==
    /\ op.name = "write_ppu" /\ op.addr = 67 /\ op.val = 153
    /\ panicked = ""
    /\ read_ppu(ppu, 67).val = 153
    /\ read_ppu(ppu, 66).val = 51
    /\ read_ppu(ppu, 68).val = 0

Running == loc = "continue"

\* C21: a Continue whose program counter never becomes a member of the
\* breakpoint set (the empty set included) stays in its loop for ever and
\* steps the core again and again, so the prompt is never reached again; a
\* Continue whose program counter is a member of the set returns, and it
\* returns at once: while the counter is outside the set every move of the
\* loop is one more step, and once it is inside the only move is the return,
\* with no further step.
C21_ContinueRunsUntilBreakpoint ==
    /\ []((Running /\ [](pc \notin breakpoints)) => [](Running))
    /\ (<>[](Running /\ pc \notin breakpoints))
           => []<><<op'.name = "continue_step" /\ steps' # steps>>_vars
    /\ [](Running /\ breakpoints = {} => [](Running))
    /\ [](Running /\ pc \in breakpoints => <>(loc = "prompt"))
    /\ [][ Running =>
             IF pc \in breakpoints
             THEN /\ loc' = "prompt"
                  /\ op'.name = "continue_return"
                  /\ UNCHANGED <<pc, steps, breakpoints>>
             ELSE /\ loc' = "continue"
                  /\ op'.name = "continue_step"
                  /\ steps' = (steps + 1) % (MaxSteps + 1)
                  /\ UNCHANGED breakpoints ]_vars

\* a Continue with no breakpoint set has stepped the core MaxSteps + 1 times
\* (the count of steps is back where the command started) and is still running
C21_Witness ==
    /\ Running
    /\ op.name = "continue_step"
    /\ breakpoints = {}
    /\ steps = cont.start_steps
    /\ pc # cont.start_pc

====
